---------------------------- MODULE Spec2Model ----------------------------
(***************************************************************************)
(* Parking simulator: the kinematic core (simulationUtils), the steering  *)
(* wheel mapper (SteeringWheel), the advice service (geminiService) and   *)
(* the session loop of the App component (animate, handleReset, ...).     *)
(*                                                                         *)
(* Numbers are fixed point:                                                *)
(*   lengths    1/100 px          (x, y, widths, heights)                  *)
(*   angles     1/24 degree       (PI = 4320, so pi/4 = 1080 exactly)      *)
(*   speed      1/1000            (MAX_SPEED = 2000)                       *)
(*   time       1 ms              (deltaTime = dt / 1000 s)                *)
(*   sin, cos   1/1000                                                     *)
(* Every product stays below 2^31.                                         *)
(*                                                                         *)
(* Three specifications:                                                   *)
(*   Spec       the whole program, every control, frames 1.3 s apart       *)
(*   SpecDrive  quick-set buttons, gears and pedals, frames of three       *)
(*              lengths                                                    *)
(*   SpecFn     one direct call of checkSuccess, checkCollision,           *)
(*              updateCarPhysics, getPredictivePath, App's predictivePath  *)
(*              or the body of one tick, on drawn arguments                *)
(* Rendering follows React 18: the updates of a click, mousedown or        *)
(* mouseup handler are rendered, and their effects run, before anything    *)
(* else runs; updates made in a frame callback, in the mousemove listener  *)
(* or after an await are rendered later, and their effects later still.    *)
(***************************************************************************)
EXTENDS Integers, Sequences, FiniteSets

VARIABLES
  carState,        \* useState carState: the latest value given to setCarState
  gameStatus,      \* useState gameStatus: the latest value given to setGameStatus
  view,            \* what the last committed render shows: [carState, gameStatus]
  carStateRef,     \* carStateRef.current
  cb,              \* closure of the animate callback held by requestAnimationFrame
  requestRef,      \* "scheduled" while a frame callback is requested
  lastTimeSet,     \* lastTimeRef.current !== undefined
  pe,              \* passive effects of the last commit that have not run yet
  gear, isGasPressed, isBrakePressed,
  carWidth, spotWidth,
  isDragging, startAngleRef,
  lsn,             \* closure of the window listeners registered by SteeringWheel
  aiAdvice, isLoadingAi,
  requests,        \* advice requests in flight
  nextReq,         \* number of advice requests issued so far
  rejected,        \* advice promises that rejected (unhandled)
  ticks, events,   \* counters that bound a run
  lastOp,          \* the handler or callback that ran last (renders and effects aside)
  fnArgs, fnRes    \* argument and result of a direct call of a pure function

appVars == <<carState, gameStatus, view, carStateRef, cb, requestRef, lastTimeSet,
             pe, gear, isGasPressed, isBrakePressed, carWidth, spotWidth,
             isDragging, startAngleRef, lsn, aiAdvice, isLoadingAi, requests,
             nextReq, rejected, ticks, events, lastOp>>
fnVars == <<fnArgs, fnRes>>
vars == <<appVars, fnVars>>

---------------------------------------------------------------------------
(* Arithmetic                                                              *)

Abs(a) == IF a < 0 THEN -a ELSE a
Max(a, b) == IF a >= b THEN a ELSE b
Min(a, b) == IF a <= b THEN a ELSE b

\* Division rounded to the nearest integer (b > 0), as a float division rounds.
RDiv(a, b) == IF a >= 0 THEN (2 * a + b) \div (2 * b)
                        ELSE -((2 * (-a) + b) \div (2 * b))

\* The remainder operator % of the source: the sign follows the dividend.
JsRem(a, b) == IF a >= 0 THEN a % b ELSE -((-a) % b)

PI == 4320
TWO_PI == 2 * PI

\* sin on [0, PI], in 1/1000 (Bhaskara's rational approximation).
SinHalfTurn(u) ==
  LET p == u * (PI - u)
  IN  RDiv(160 * p, (5 * PI * PI - 4 * p) \div 100)

Sin(a) ==
  LET n == a % TWO_PI
  IN  IF n <= PI THEN SinHalfTurn(n) ELSE -SinHalfTurn(n - PI)

Cos(a) == Sin(a + PI \div 2)

Tan(a) == RDiv(Sin(a) * 1000, Cos(a))

---------------------------------------------------------------------------
(* simulationUtils: constants and environment                              *)

DEFAULT_CAR_SIZE == [width |-> 4000, height |-> 2200]
DEFAULT_WHEEL_BASE == 26
MAX_STEERING_ANGLE == PI \div 4
MAX_SPEED == 2000
WORLD_SIZE == [width |-> 80000, height |-> 60000]

INITIAL_CAR_STATE ==
  [x |-> 20000, y |-> 35000, rotation |-> 0, steeringAngle |-> 0, speed |-> 0]

\* spotWidth in px, as the slider gives it.
getEnvironment(sw) ==
  LET spotHeight == 10000
      rowStartY == 5000
      spotCenterX == WORLD_SIZE.width \div 2
      parkingSpot == [x |-> spotCenterX - (sw * 100) \div 2, y |-> rowStartY,
                      width |-> sw * 100, height |-> spotHeight]
      gap == 500
      neighborWidth == 20000
      neighborHeight == spotHeight
  IN  [parkingSpot |-> parkingSpot,
       walls |-> <<
         [x |-> 0, y |-> 0, width |-> WORLD_SIZE.width, height |-> 5000],
         [x |-> 0, y |-> WORLD_SIZE.height - 5000,
          width |-> WORLD_SIZE.width, height |-> 5000],
         [x |-> 0, y |-> 0, width |-> 5000, height |-> WORLD_SIZE.height],
         [x |-> WORLD_SIZE.width - 5000, y |-> 0,
          width |-> 5000, height |-> WORLD_SIZE.height],
         [x |-> parkingSpot.x - gap - neighborWidth, y |-> rowStartY,
          width |-> neighborWidth, height |-> neighborHeight],
         [x |-> parkingSpot.x + parkingSpot.width + gap, y |-> rowStartY,
          width |-> neighborWidth, height |-> neighborHeight] >>]

\* currentCarSize of the App: carWidth in px, as the slider gives it.
currentCarSize(cw) == [width |-> cw * 100, height |-> DEFAULT_CAR_SIZE.height]

---------------------------------------------------------------------------
(* simulationUtils: geometry kernel, detector, judge, integrator           *)

getCarCorners(state, size) ==
  LET hw == RDiv(size.width, 2)
      hh == RDiv(size.height, 2)
      corners == << [x |-> hw, y |-> hh], [x |-> -hw, y |-> hh],
                    [x |-> -hw, y |-> -hh], [x |-> hw, y |-> -hh] >>
      cos == Cos(state.rotation)
      sin == Sin(state.rotation)
  IN  [i \in 1..4 |->
        [x |-> state.x + RDiv(corners[i].x * cos - corners[i].y * sin, 1000),
         y |-> state.y + RDiv(corners[i].x * sin + corners[i].y * cos, 1000)]]

\* isPointInRect with the edges of the rectangle left out.
isPointInRectStrict(p, rect) ==
  /\ p.x > rect.x /\ p.x < rect.x + rect.width
  /\ p.y > rect.y /\ p.y < rect.y + rect.height

isPointInRect(p, rect) ==
  /\ p.x >= rect.x /\ p.x <= rect.x + rect.width
  /\ p.y >= rect.y /\ p.y <= rect.y + rect.height

checkCollision(state, size, walls) ==
  LET corners == getCarCorners(state, size)
  IN  \E i \in 1..4 : \E w \in 1..Len(walls) : isPointInRect(corners[i], walls[w])

\* 0.2 rad
ALIGN_TOLERANCE == 275

\* checkSuccess without the alignment gate.
checkSuccessContainmentOnly(state, size, parkingSpot) ==
  LET corners == getCarCorners(state, size)
  IN  \A i \in 1..4 : isPointInRect(corners[i], parkingSpot)

checkSuccess(state, size, parkingSpot) ==
  LET corners == getCarCorners(state, size)
      isInside == \A i \in 1..4 : isPointInRect(corners[i], parkingSpot)
      rem == JsRem(state.rotation, TWO_PI)
      angle == IF rem < 0 THEN rem + TWO_PI ELSE rem
      targetAngle == (3 * PI) \div 2
      angleDiff == Abs(angle - targetAngle)
      isAligned == \/ angleDiff < ALIGN_TOLERANCE
                   \/ Abs(angleDiff - TWO_PI) < ALIGN_TOLERANCE
  IN  IF ~isInside THEN FALSE ELSE isAligned

\* updateCarPhysics without the early return at negligible speed.
updateCarPhysicsNoRest(state, dt, wheelBase) ==
  LET dist == RDiv(state.speed * dt * 3, 1000)
      beta == RDiv(RDiv(dist * Tan(state.steeringAngle), 1000) * 1375, 100 * wheelBase)
      newRotation == state.rotation + beta
  IN  [state EXCEPT !.x = state.x + RDiv(dist * Cos(newRotation), 1000),
                    !.y = state.y + RDiv(dist * Sin(newRotation), 1000),
                    !.rotation = newRotation]

\* updateCarPhysics translating along the heading it was given.
updateCarPhysicsOldHeading(state, dt, wheelBase) ==
  IF Abs(state.speed) < 10 THEN state
  ELSE
    LET dist == RDiv(state.speed * dt * 3, 1000)
        beta == RDiv(RDiv(dist * Tan(state.steeringAngle), 1000) * 1375, 100 * wheelBase)
    IN  [state EXCEPT !.x = state.x + RDiv(dist * Cos(state.rotation), 1000),
                      !.y = state.y + RDiv(dist * Sin(state.rotation), 1000),
                      !.rotation = state.rotation + beta]

\* updateCarPhysics turning the other way.
updateCarPhysicsMirrored(state, dt, wheelBase) ==
  IF Abs(state.speed) < 10 THEN state
  ELSE
    LET dist == RDiv(state.speed * dt * 3, 1000)
        beta == RDiv(RDiv(dist * Tan(state.steeringAngle), 1000) * 1375, 100 * wheelBase)
        newRotation == state.rotation - beta
    IN  [state EXCEPT !.x = state.x + RDiv(dist * Cos(newRotation), 1000),
                      !.y = state.y + RDiv(dist * Sin(newRotation), 1000),
                      !.rotation = newRotation]

\* dt in ms; dist = speed * dt * 30 px; beta in radians is dist / L * tan,
\* and one radian is 1375 angle units.
updateCarPhysics(state, dt, wheelBase) ==
  IF Abs(state.speed) < 10 THEN state
  ELSE
    LET dist == RDiv(state.speed * dt * 3, 1000)
        beta == RDiv(RDiv(dist * Tan(state.steeringAngle), 1000) * 1375, 100 * wheelBase)
        newRotation == state.rotation + beta
    IN  [state EXCEPT !.x = state.x + RDiv(dist * Cos(newRotation), 1000),
                      !.y = state.y + RDiv(dist * Sin(newRotation), 1000),
                      !.rotation = newRotation]

\* The preview speed taken from the gear alone.
simSpeedOfGear(state, directionSign) == directionSign * 1500

\* The preview speed: the vehicle's own speed above 0.1, else 1.5 in the
\* direction of the gear.
simSpeedOf(state, directionSign) ==
  IF Abs(state.speed) > 100 THEN state.speed ELSE directionSign * 1500

\* The loop of getPredictivePath from tempState with n iterations left.
RECURSIVE pathLoop(_, _, _)
pathLoop(tempState, wheelBase, n) ==
  IF n = 0 THEN <<>>
  ELSE LET t == updateCarPhysics(tempState, 500, wheelBase)
       IN  <<[x |-> t.x, y |-> t.y]>> \o pathLoop(t, wheelBase, n - 1)

\* The loop left at the first predicted vehicle that touches a wall.
RECURSIVE pathLoopToWall(_, _, _)
pathLoopToWall(tempState, wheelBase, n) ==
  IF n = 0 THEN <<>>
  ELSE LET t == updateCarPhysics(tempState, 500, wheelBase)
       IN  IF checkCollision(t, currentCarSize(40), getEnvironment(65).walls)
           THEN <<>>
           ELSE <<[x |-> t.x, y |-> t.y]>> \o pathLoopToWall(t, wheelBase, n - 1)

\* getPredictivePath ending at the first wall.
getPredictivePathToWall(state, wheelBase, directionSign, steps) ==
  pathLoopToWall([state EXCEPT !.speed = simSpeedOf(state, directionSign)],
                 wheelBase, steps)

getPredictivePath(state, wheelBase, directionSign, steps) ==
  pathLoop([state EXCEPT !.speed = simSpeedOf(state, directionSign)], wheelBase, steps)

\* The default value of the parameter steps.
DEFAULT_STEPS == 30

\* App's predictivePath drawn for every gear but P.
predictivePathButPark(showPredictivePath, g, cs) ==
  IF ~showPredictivePath \/ g = "P" THEN <<>>
  ELSE getPredictivePath(cs, DEFAULT_WHEEL_BASE, IF g = "D" THEN 1 ELSE -1, DEFAULT_STEPS)

\* App's predictivePath (useMemo over showPredictivePath, gear, carState).
predictivePath(showPredictivePath, g, cs) ==
  IF ~showPredictivePath \/ g = "P" \/ g = "N" THEN <<>>
  ELSE getPredictivePath(cs, DEFAULT_WHEEL_BASE, IF g = "D" THEN 1 ELSE -1, DEFAULT_STEPS)

---------------------------------------------------------------------------
(* Bounds of the model and the inputs it draws                             *)

MaxTicks == 5          \* animation-frame callbacks in a run
MaxEvents == 4         \* user input events in a run
MaxAbsSpeed == 8000    \* the vehicle is followed while |speed| <= 8

\* Frame deltas in ms: a janky frame, and two gaps after the page was hidden.
FrameDeltas == {100, 500, 1300}
\* The frame delta of the sessions that use every control.
LongFrames == {1300}
\* Pointer angles around the wheel centre, in whole degrees.
MouseAngles == {-170, 0, 170}
\* Pointer angles at which the wheel is grabbed.
GrabAngles == {-170, 170}
\* Positions of the two difficulty sliders (px): the default and one other.
CarWidths == {40, 50}
SpotWidths == {45, 65}
Gears == {"P", "R", "N", "D"}

---------------------------------------------------------------------------
(* SteeringWheel                                                           *)

\* MAX_TURNS * 360 degrees, in 1/24 degree.
MAX_VISUAL_DEG == 540 * 24

\* angle (1/24 degree of arc) to degrees: angle * 180 / Math.PI.
ToDegrees(angle) == RDiv(angle * 180 * 24, PI)

currentVisualRotation(angle, maxAngle) ==
  LET currentPhysicsDeg == ToDegrees(angle)
      maxPhysicsDeg == ToDegrees(maxAngle)
  IN  RDiv(currentPhysicsDeg * MAX_VISUAL_DEG, maxPhysicsDeg)

\* The visual rotation left as it is.
noClamp(v) == v

clampVisual(v) == Max(-MAX_VISUAL_DEG, Min(MAX_VISUAL_DEG, v))

\* delta between two pointer angles (whole degrees), wrapped for continuity.
moveDelta(currentMouseAngle, startAngle) ==
  LET d0 == currentMouseAngle - startAngle
      d1 == IF d0 > 180 THEN d0 - 360 ELSE d0
  IN  IF d1 < -180 THEN d1 + 360 ELSE d1

\* handleMove: new physics angle from the rotation the listener closure holds.
handleMoveAngle(visual, delta, maxAngle) ==
  LET newVisual == clampVisual(visual + delta * 24)
  IN  RDiv(newVisual * maxAngle, MAX_VISUAL_DEG)

\* setTurns(t), t given in half turns (the buttons pass -1.5, 0, 1.5).
setTurnsAngle(halfTurns, maxAngle) ==
  LET newVisual == halfTurns * 180 * 24
      clamped == clampVisual(newVisual)
  IN  RDiv(clamped * maxAngle, MAX_VISUAL_DEG)

---------------------------------------------------------------------------
(* geminiService                                                           *)

FALLBACK == [kind |-> "fallback", req |-> 0]
PLACEHOLDER == [kind |-> "placeholder", req |-> 0]
WELCOME == [kind |-> "welcome", req |-> 0]
RESTART == [kind |-> "restart", req |-> 0]

\* The heading written into the prompt:
\* (carState.rotation * (180 / Math.PI)).toFixed(0), in whole degrees.
angleDeg(state) == RDiv(state.rotation * 180, PI)

\* What can happen inside getDrivingAdvice.
AdviceOutcomes == {"text", "emptyText", "clientThrows", "promptThrows", "remoteThrows"}

\* getDrivingAdvice without its try/catch.
getDrivingAdviceNoCatch(req, outcome) ==
  IF outcome \in {"clientThrows", "promptThrows", "remoteThrows"}
  THEN [settled |-> "rejected", value |-> FALLBACK]
  ELSE [settled |-> "fulfilled",
        value |-> IF outcome = "emptyText" THEN PLACEHOLDER
                  ELSE [kind |-> "advice", req |-> req.id]]

\* The promise getDrivingAdvice returns: the whole body is inside try/catch.
getDrivingAdvice(req, outcome) ==
  IF outcome \in {"clientThrows", "promptThrows", "remoteThrows"}
  THEN [settled |-> "fulfilled", value |-> FALLBACK]
  ELSE [settled |-> "fulfilled",
        value |-> IF outcome = "emptyText" THEN PLACEHOLDER
                  ELSE [kind |-> "advice", req |-> req.id]]

---------------------------------------------------------------------------
(* App: closures, renders and effects                                      *)
(*                                                                         *)
(* A handler of a discrete event (click, mousedown, mouseup, slider input) *)
(* is followed at once by a render that commits every pending update and   *)
(* by its effects.  Updates made in an animation-frame callback, in the     *)
(* window mousemove listener or after an await are committed by a later     *)
(* render (Render), and the effects of that commit run later still          *)
(* (FlushEffects).                                                          *)

NoEffects == [car |-> FALSE, anim |-> FALSE, wheel |-> FALSE]

\* The values animate closes over (its useCallback dependencies).
Closure(gs, g, gas, brake, cw, sw) ==
  [gameStatus |-> gs, gear |-> g, isGasPressed |-> gas, isBrakePressed |-> brake,
   carWidth |-> cw, spotWidth |-> sw]

\* The values the window listeners of SteeringWheel close over: isDragging,
\* currentVisualRotation, and (through onChange) the gameStatus of that render.
Listener(drag, cs, gs) ==
  [isDragging |-> drag,
   visual |-> currentVisualRotation(cs.steeringAngle, MAX_STEERING_ANGLE),
   gameStatus |-> gs]

\* The effects of a commit, run: the ref sync [carState], the frame
\* rescheduling [animate] and the listener registration of SteeringWheel.
RefAfterEffects == IF pe.car THEN view.carState ELSE carStateRef
CbAfterEffects ==
  IF pe.anim
  THEN Closure(view.gameStatus, gear, isGasPressed, isBrakePressed, carWidth, spotWidth)
  ELSE cb
LsnAfterEffects ==
  IF pe.wheel THEN Listener(isDragging, view.carState, view.gameStatus) ELSE lsn

\* The render and effects that follow a discrete event at once.  cs, gs, ...
\* are the values after the handler; refH is the ref as the handler left it.
Commit(cs, gs, refH, g, gas, brake, cw, sw, drag) ==
  LET lsn1 == LsnAfterEffects
      new == Listener(drag, cs, gs)
  IN  /\ view' = [carState |-> cs, gameStatus |-> gs]
      /\ carStateRef' = IF pe.car \/ view.carState # cs THEN cs ELSE refH
      /\ cb' = Closure(gs, g, gas, brake, cw, sw)
      /\ lsn' = IF lsn1.isDragging # new.isDragging \/ lsn1.visual # new.visual
                THEN new ELSE lsn1
      /\ pe' = NoEffects

\* A later render of the updates made outside discrete events.
Render ==
  /\ UNCHANGED lastOp
  /\ view # [carState |-> carState, gameStatus |-> gameStatus]
  /\ carStateRef' = RefAfterEffects
  /\ cb' = CbAfterEffects
  /\ lsn' = LsnAfterEffects
  /\ view' = [carState |-> carState, gameStatus |-> gameStatus]
  /\ pe' = [car |-> view.carState # carState,
            anim |-> view.gameStatus # gameStatus,
            wheel |-> currentVisualRotation(view.carState.steeringAngle, MAX_STEERING_ANGLE)
                      # currentVisualRotation(carState.steeringAngle, MAX_STEERING_ANGLE)]
  /\ UNCHANGED <<carState, gameStatus, requestRef, lastTimeSet, gear, isGasPressed,
                 isBrakePressed, carWidth, spotWidth, isDragging, startAngleRef,
                 aiAdvice, isLoadingAi, requests, nextReq, rejected, ticks, events>>
  /\ UNCHANGED fnVars

FlushEffects ==
  /\ UNCHANGED lastOp
  /\ pe # NoEffects
  /\ carStateRef' = RefAfterEffects
  /\ cb' = CbAfterEffects
  /\ lsn' = LsnAfterEffects
  /\ pe' = NoEffects
  /\ UNCHANGED <<carState, gameStatus, view, requestRef, lastTimeSet, gear,
                 isGasPressed, isBrakePressed, carWidth, spotWidth, isDragging,
                 startAngleRef, aiAdvice, isLoadingAi, requests, nextReq, rejected,
                 ticks, events>>
  /\ UNCHANGED fnVars

---------------------------------------------------------------------------
(* App: the animation-frame callback                                       *)

\* The target speed with the accelerator looked at before gear P, the brake
\* and gear N.
targetSpeedGasFirst(c) ==
  IF c.isGasPressed
  THEN (IF c.gear = "R" THEN -MAX_SPEED ELSE MAX_SPEED)
  ELSE 0

\* Realistic Transmission Logic: target speed and response (in 1/100).
targetSpeed(c) ==
  IF c.gear = "P" THEN 0
  ELSE IF c.isBrakePressed THEN 0
  ELSE IF c.gear = "N" THEN 0
  ELSE IF c.isGasPressed
       THEN (IF c.gear = "D" THEN MAX_SPEED ELSE IF c.gear = "R" THEN -MAX_SPEED ELSE 0)
  ELSE 0

physicsResponse(c) ==
  IF c.gear = "P" THEN 50
  ELSE IF c.isBrakePressed THEN 20
  ELSE IF c.gear = "N" THEN 1
  ELSE IF c.isGasPressed THEN 5
  ELSE 2

\* currentSpeed + (targetSpeed - currentSpeed) * (physicsResponse * deltaTime * 60)
newSpeedOf(currentSpeed, c, dt) ==
  currentSpeed
    + RDiv((targetSpeed(c) - currentSpeed) * RDiv(physicsResponse(c) * dt * 60, 100), 1000)

nextStateOf(ref, c, dt) ==
  updateCarPhysics([ref EXCEPT !.speed = newSpeedOf(ref.speed, c, dt)], dt,
                   DEFAULT_WHEEL_BASE)

\* The speed test of the PARKED branch left out.
parkSpeedAny(newSpeed) == TRUE

\* Math.abs(newSpeed) < 0.1
parkSpeedOk(newSpeed) == Abs(newSpeed) < 100

\* The branches of the callback with the parking test first.
tickOutcomeParkingFirst(nextState, newSpeed, c) ==
  IF /\ checkSuccess(nextState, currentCarSize(c.carWidth),
                     getEnvironment(c.spotWidth).parkingSpot)
     /\ parkSpeedOk(newSpeed)
  THEN "PARKED"
  ELSE IF checkCollision(nextState, currentCarSize(c.carWidth),
                         getEnvironment(c.spotWidth).walls)
       THEN "CRASHED"
       ELSE "NONE"

\* The branch the callback takes on the new state: "CRASHED", "PARKED" or "NONE".
tickOutcome(nextState, newSpeed, c) ==
  IF checkCollision(nextState, currentCarSize(c.carWidth), getEnvironment(c.spotWidth).walls)
  THEN "CRASHED"
  ELSE IF /\ checkSuccess(nextState, currentCarSize(c.carWidth),
                          getEnvironment(c.spotWidth).parkingSpot)
          /\ parkSpeedOk(newSpeed)
       THEN "PARKED"
       ELSE "NONE"

\* The next frame requested only after the advice call.
rescheduleAwaitingAdvice(issued) == IF issued THEN "awaiting" ELSE "scheduled"

\* requestRef after the callback: requestAnimationFrame(animate) is reached
\* whether or not handleAiAdvice was called, which is not awaited.
reschedule(issued) == "scheduled"

\* handleAiAdvice up to its await: the request as issued.
adviceRequest(state, status, action) ==
  [id |-> nextReq + 1, state |-> state, status |-> status, action |-> action]

Animate(dt) ==
  /\ lastOp' = "Animate"
  /\ requestRef = "scheduled"
  /\ ticks < MaxTicks
  /\ ticks' = ticks + 1
  /\ lastTimeSet' = TRUE
  /\ IF lastTimeSet /\ cb.gameStatus = "PLAYING"
     THEN LET newSpeed == newSpeedOf(carStateRef.speed, cb, dt)
              nextState == nextStateOf(carStateRef, cb, dt)
              outcome == tickOutcome(nextState, newSpeed, cb)
          IN  /\ Abs(newSpeed) <= MaxAbsSpeed
              /\ IF outcome = "NONE"
                 THEN /\ UNCHANGED <<gameStatus, isLoadingAi, requests, nextReq>>
                      /\ requestRef' = reschedule(FALSE)
                 ELSE /\ gameStatus' = outcome
                      /\ isLoadingAi' = TRUE
                      /\ requests' = Append(requests,
                                            adviceRequest(nextState, outcome, "tick"))
                      /\ nextReq' = nextReq + 1
                      /\ requestRef' = reschedule(TRUE)
              /\ carState' = nextState
              /\ carStateRef' = nextState
     ELSE /\ UNCHANGED <<carState, carStateRef, gameStatus, isLoadingAi, requests, nextReq>>
          /\ requestRef' = reschedule(FALSE)
  /\ UNCHANGED <<view, cb, pe, gear, isGasPressed, isBrakePressed, carWidth, spotWidth,
                 isDragging, startAngleRef, lsn, aiAdvice, rejected, events>>
  /\ UNCHANGED fnVars

---------------------------------------------------------------------------
(* App: event handlers                                                     *)

\* handleReset without setGameStatus.
resetValuesKeepStatus ==
  [carState |-> INITIAL_CAR_STATE, carStateRef |-> INITIAL_CAR_STATE,
   gameStatus |-> gameStatus, gear |-> "P", isGasPressed |-> FALSE,
   isBrakePressed |-> FALSE, aiAdvice |-> RESTART]

\* What handleReset assigns.
resetValues ==
  [carState |-> INITIAL_CAR_STATE, carStateRef |-> INITIAL_CAR_STATE,
   gameStatus |-> "PLAYING", gear |-> "P", isGasPressed |-> FALSE,
   isBrakePressed |-> FALSE, aiAdvice |-> RESTART]

\* onClick of the reset button.
HandleReset ==
  /\ lastOp' = "HandleReset"
  /\ events < MaxEvents
  /\ events' = events + 1
  /\ carState' = resetValues.carState
  /\ gameStatus' = resetValues.gameStatus
  /\ gear' = resetValues.gear
  /\ isGasPressed' = resetValues.isGasPressed
  /\ isBrakePressed' = resetValues.isBrakePressed
  /\ aiAdvice' = resetValues.aiAdvice
  /\ Commit(resetValues.carState, resetValues.gameStatus, resetValues.carStateRef,
            resetValues.gear, resetValues.isGasPressed, resetValues.isBrakePressed,
            carWidth, spotWidth, isDragging)
  /\ UNCHANGED <<requestRef, lastTimeSet, carWidth, spotWidth, isDragging,
                 startAngleRef, isLoadingAi, requests, nextReq, rejected, ticks>>
  /\ UNCHANGED fnVars

\* handleSteeringChange(angle) as closed over a render that showed status gs:
\* the new state, or the ref unchanged when the call returns early.
handleSteeringChange(gs, angle) ==
  IF gs # "PLAYING" THEN carStateRef
  ELSE [carStateRef EXCEPT !.steeringAngle = angle]

\* onClick of a quick-set button: setTurns(-1.5), setTurns(0), setTurns(1.5).
SetTurns(halfTurns) ==
  /\ lastOp' = "SetTurns"
  /\ events < MaxEvents
  /\ events' = events + 1
  /\ IF view.gameStatus # "PLAYING"
     THEN UNCHANGED <<carState, carStateRef, view, cb, lsn, pe>>
     ELSE LET newState ==
                handleSteeringChange(view.gameStatus,
                                     setTurnsAngle(halfTurns, MAX_STEERING_ANGLE))
          IN  /\ carState' = newState
              /\ Commit(newState, gameStatus, newState, gear, isGasPressed,
                        isBrakePressed, carWidth, spotWidth, isDragging)
  /\ UNCHANGED <<gameStatus, requestRef, lastTimeSet, gear, isGasPressed,
                 isBrakePressed, carWidth, spotWidth, isDragging, startAngleRef,
                 aiAdvice, isLoadingAi, requests, nextReq, rejected, ticks>>
  /\ UNCHANGED fnVars

\* onMouseDown / onTouchStart on the wheel.
HandleStart(mouseAngle) ==
  /\ lastOp' = "HandleStart"
  /\ events < MaxEvents
  /\ ~isDragging
  /\ events' = events + 1
  /\ isDragging' = TRUE
  /\ startAngleRef' = mouseAngle
  /\ Commit(carState, gameStatus, carStateRef, gear, isGasPressed, isBrakePressed,
            carWidth, spotWidth, TRUE)
  /\ UNCHANGED <<carState, gameStatus, requestRef, lastTimeSet, gear, isGasPressed,
                 isBrakePressed, carWidth, spotWidth, aiAdvice, isLoadingAi,
                 requests, nextReq, rejected, ticks>>
  /\ UNCHANGED fnVars

\* The window mousemove / touchmove listener.
HandleMove(mouseAngle) ==
  /\ lastOp' = "HandleMove"
  /\ events < MaxEvents
  /\ lsn.isDragging
  /\ events' = events + 1
  /\ startAngleRef' = mouseAngle
  /\ LET delta == moveDelta(mouseAngle, startAngleRef)
         newPhysics == handleMoveAngle(lsn.visual, delta, MAX_STEERING_ANGLE)
         newState == handleSteeringChange(lsn.gameStatus, newPhysics)
     IN  IF lsn.gameStatus # "PLAYING"
         THEN UNCHANGED <<carState, carStateRef>>
         ELSE carState' = newState /\ carStateRef' = newState
  /\ UNCHANGED <<gameStatus, view, cb, requestRef, lastTimeSet, pe, gear,
                 isGasPressed, isBrakePressed, carWidth, spotWidth, isDragging, lsn,
                 aiAdvice, isLoadingAi, requests, nextReq, rejected, ticks>>
  /\ UNCHANGED fnVars

\* The window mouseup / touchend listener.
HandleEnd ==
  /\ lastOp' = "HandleEnd"
  /\ events < MaxEvents
  /\ lsn.isDragging
  /\ events' = events + 1
  /\ isDragging' = FALSE
  /\ Commit(carState, gameStatus, carStateRef, gear, isGasPressed, isBrakePressed,
            carWidth, spotWidth, FALSE)
  /\ UNCHANGED <<carState, gameStatus, requestRef, lastTimeSet, gear, isGasPressed,
                 isBrakePressed, carWidth, spotWidth, startAngleRef, aiAdvice,
                 isLoadingAi, requests, nextReq, rejected, ticks>>
  /\ UNCHANGED fnVars

\* onClick of a gear button.
SetGear(g) ==
  /\ lastOp' = "SetGear"
  /\ events < MaxEvents
  /\ g # gear
  /\ events' = events + 1
  /\ gear' = g
  /\ Commit(carState, gameStatus, carStateRef, g, isGasPressed, isBrakePressed,
            carWidth, spotWidth, isDragging)
  /\ UNCHANGED <<carState, gameStatus, requestRef, lastTimeSet, isGasPressed,
                 isBrakePressed, carWidth, spotWidth, isDragging, startAngleRef,
                 aiAdvice, isLoadingAi, requests, nextReq, rejected, ticks>>
  /\ UNCHANGED fnVars

\* Accelerator pedal: mousedown / touchstart (TRUE), mouseup / touchend (FALSE).
SetIsGasPressed(b) ==
  /\ lastOp' = "SetIsGasPressed"
  /\ events < MaxEvents
  /\ b # isGasPressed
  /\ events' = events + 1
  /\ isGasPressed' = b
  /\ Commit(carState, gameStatus, carStateRef, gear, b, isBrakePressed,
            carWidth, spotWidth, isDragging)
  /\ UNCHANGED <<carState, gameStatus, requestRef, lastTimeSet, gear,
                 isBrakePressed, carWidth, spotWidth, isDragging, startAngleRef,
                 aiAdvice, isLoadingAi, requests, nextReq, rejected, ticks>>
  /\ UNCHANGED fnVars

\* Brake pedal.
SetIsBrakePressed(b) ==
  /\ lastOp' = "SetIsBrakePressed"
  /\ events < MaxEvents
  /\ b # isBrakePressed
  /\ events' = events + 1
  /\ isBrakePressed' = b
  /\ Commit(carState, gameStatus, carStateRef, gear, isGasPressed, b,
            carWidth, spotWidth, isDragging)
  /\ UNCHANGED <<carState, gameStatus, requestRef, lastTimeSet, gear,
                 isGasPressed, carWidth, spotWidth, isDragging, startAngleRef,
                 aiAdvice, isLoadingAi, requests, nextReq, rejected, ticks>>
  /\ UNCHANGED fnVars

\* Difficulty sliders.
SetCarWidth(w) ==
  /\ lastOp' = "SetCarWidth"
  /\ events < MaxEvents
  /\ w # carWidth
  /\ events' = events + 1
  /\ carWidth' = w
  /\ Commit(carState, gameStatus, carStateRef, gear, isGasPressed, isBrakePressed,
            w, spotWidth, isDragging)
  /\ UNCHANGED <<carState, gameStatus, requestRef, lastTimeSet, gear, isGasPressed,
                 isBrakePressed, spotWidth, isDragging, startAngleRef,
                 aiAdvice, isLoadingAi, requests, nextReq, rejected, ticks>>
  /\ UNCHANGED fnVars

SetSpotWidth(w) ==
  /\ lastOp' = "SetSpotWidth"
  /\ events < MaxEvents
  /\ w # spotWidth
  /\ events' = events + 1
  /\ spotWidth' = w
  /\ Commit(carState, gameStatus, carStateRef, gear, isGasPressed, isBrakePressed,
            carWidth, w, isDragging)
  /\ UNCHANGED <<carState, gameStatus, requestRef, lastTimeSet, gear, isGasPressed,
                 isBrakePressed, carWidth, isDragging, startAngleRef,
                 aiAdvice, isLoadingAi, requests, nextReq, rejected, ticks>>
  /\ UNCHANGED fnVars

\* manualAskAi: handleAiAdvice(carStateRef.current, gameStatus, ...) up to its await.
ManualAskAi ==
  /\ lastOp' = "ManualAskAi"
  /\ events < MaxEvents
  /\ events' = events + 1
  /\ isLoadingAi' = TRUE
  /\ requests' = Append(requests, adviceRequest(carStateRef, view.gameStatus, "manual"))
  /\ nextReq' = nextReq + 1
  /\ Commit(carState, gameStatus, carStateRef, gear, isGasPressed, isBrakePressed,
            carWidth, spotWidth, isDragging)
  /\ UNCHANGED <<carState, gameStatus, requestRef, lastTimeSet, gear, isGasPressed,
                 isBrakePressed, carWidth, spotWidth, isDragging, startAngleRef,
                 aiAdvice, rejected, ticks>>
  /\ UNCHANGED fnVars

RemoveAt(seq, i) == [j \in 1..(Len(seq) - 1) |-> IF j < i THEN seq[j] ELSE seq[j + 1]]

\* handleAiAdvice after its await: the promise of request i has settled.
AdviceSettle(i, outcome) ==
  /\ lastOp' = "AdviceSettle"
  /\ i \in 1..Len(requests)
  /\ LET result == getDrivingAdvice(requests[i], outcome)
     IN  IF result.settled = "fulfilled"
         THEN /\ aiAdvice' = result.value
              /\ isLoadingAi' = FALSE
              /\ UNCHANGED rejected
         ELSE /\ rejected' = rejected + 1
              /\ UNCHANGED <<aiAdvice, isLoadingAi>>
  /\ requests' = RemoveAt(requests, i)
  /\ UNCHANGED <<carState, gameStatus, view, carStateRef, cb, requestRef, lastTimeSet,
                 pe, gear, isGasPressed, isBrakePressed, carWidth, spotWidth,
                 isDragging, startAngleRef, lsn, nextReq, ticks, events>>
  /\ UNCHANGED fnVars

---------------------------------------------------------------------------
(* The session                                                             *)

FnIdle == fnArgs = [fn |-> "none"] /\ fnRes = [fn |-> "none"]

AppInit ==
  /\ carState = INITIAL_CAR_STATE
  /\ gameStatus = "PLAYING"
  /\ view = [carState |-> INITIAL_CAR_STATE, gameStatus |-> "PLAYING"]
  /\ carStateRef = INITIAL_CAR_STATE
  /\ gear = "P"
  /\ isGasPressed = FALSE
  /\ isBrakePressed = FALSE
  /\ carWidth = 40
  /\ spotWidth = 65
  /\ cb = Closure("PLAYING", "P", FALSE, FALSE, 40, 65)
  /\ requestRef = "scheduled"
  /\ lastTimeSet = FALSE
  /\ pe = NoEffects
  /\ isDragging = FALSE
  /\ startAngleRef = 0
  /\ lsn = Listener(FALSE, INITIAL_CAR_STATE, "PLAYING")
  /\ aiAdvice = WELCOME
  /\ isLoadingAi = FALSE
  /\ requests = <<>>
  /\ nextReq = 0
  /\ rejected = 0
  /\ ticks = 0
  /\ events = 0
  /\ lastOp = "none"

Init == AppInit /\ FnIdle

\* The whole program: every control, frames after a long gap.
Next ==
  \/ \E dt \in LongFrames : Animate(dt)
  \/ Render
  \/ FlushEffects
  \/ HandleReset
  \/ \E h \in {-3, 0, 3} : SetTurns(h)
  \/ \E a \in GrabAngles : HandleStart(a)
  \/ \E a \in MouseAngles : HandleMove(a)
  \/ HandleEnd
  \/ \E g \in Gears : SetGear(g)
  \/ \E b \in BOOLEAN : SetIsGasPressed(b)
  \/ \E b \in BOOLEAN : SetIsBrakePressed(b)
  \/ \E w \in CarWidths : SetCarWidth(w)
  \/ \E w \in SpotWidths : SetSpotWidth(w)
  \/ ManualAskAi
  \/ \E i \in 1..MaxTicks + MaxEvents : \E o \in AdviceOutcomes : AdviceSettle(i, o)

Spec == Init /\ [][Next]_vars

\* Driving: the quick-set buttons, the gear buttons and the pedals, under
\* frames of every length.
NextDrive ==
  \/ \E dt \in FrameDeltas : Animate(dt)
  \/ Render
  \/ FlushEffects
  \/ HandleReset
  \/ \E h \in {-3, 0, 3} : SetTurns(h)
  \/ \E g \in Gears : SetGear(g)
  \/ \E b \in BOOLEAN : SetIsGasPressed(b)
  \/ \E b \in BOOLEAN : SetIsBrakePressed(b)

SpecDrive == Init /\ [][NextDrive]_vars

---------------------------------------------------------------------------
(* The kernel called directly: one call of one function on drawn arguments *)

\* A vehicle of the default width against the default environment.
FnSize == currentCarSize(DEFAULT_CAR_SIZE.width \div 100)
FnSpot == getEnvironment(65).parkingSpot

\* Obstacles around a vehicle at the world centre with heading 0: one of the
\* vehicle's own extent, a larger one, and a thin one through its body.
EqualObstacle == [x |-> 38000, y |-> 28900, width |-> 4000, height |-> 2200]
LargerObstacle == [x |-> 37000, y |-> 28000, width |-> 6000, height |-> 4000]
ThinObstacle == [x |-> 39500, y |-> 20000, width |-> 1000, height |-> 20000]

SuccessHeadings ==
  {0, 2160, 4320, 6205, 6206, 6480, 6754, 6755,
   -2435, -2434, -2160, -1886, -1885, 6480 + TWO_PI, -2160 - TWO_PI}

SuccessInputs ==
  {[fn |-> "checkSuccess",
    state |-> [x |-> px, y |-> py, rotation |-> r, steeringAngle |-> 0, speed |-> v],
    size |-> FnSize, rects |-> <<FnSpot>>, dt |-> 0, wheelBase |-> DEFAULT_WHEEL_BASE] :
     px \in {37849, 37850, 40000, 42150, 42151},
     py \in {6999, 7000, 10000, 13000, 13001},
     r \in SuccessHeadings,
     v \in {0, MAX_SPEED}}

CollisionInputs ==
  {[fn |-> "checkCollision",
    state |-> [x |-> px, y |-> py, rotation |-> r, steeringAngle |-> 0, speed |-> 0],
    size |-> FnSize, rects |-> ws, dt |-> 0, wheelBase |-> DEFAULT_WHEEL_BASE] :
     px \in {7000, 7001, 37000, 40000},
     py \in {15700, 30000},
     r \in {0, PI \div 4, PI \div 2},
     ws \in {getEnvironment(65).walls, <<EqualObstacle>>, <<LargerObstacle>>,
             <<ThinObstacle>>}}

PhysicsInputs ==
  {[fn |-> "updateCarPhysics",
    state |-> [x |-> INITIAL_CAR_STATE.x, y |-> INITIAL_CAR_STATE.y, rotation |-> r,
               steeringAngle |-> a, speed |-> v],
    size |-> FnSize, rects |-> <<>>, dt |-> dt, wheelBase |-> wb] :
     r \in {0, PI \div 4},
     a \in {-MAX_STEERING_ANGLE, 0, MAX_STEERING_ANGLE},
     v \in {0, 9, -9, 10, -10, MAX_SPEED, -MAX_SPEED},
     dt \in {16, 500, 1300},
     wb \in {DEFAULT_WHEEL_BASE, 30}}

\* Vehicles for the preview: headings in and out of one turn, speeds on both
\* sides of the 0.1 threshold and at the cap.
PathStates ==
  {[x |-> INITIAL_CAR_STATE.x, y |-> INITIAL_CAR_STATE.y, rotation |-> r,
    steeringAngle |-> a, speed |-> v] :
     r \in {0, PI \div 4, -3000, 10000},
     a \in {-MAX_STEERING_ANGLE, 0, MAX_STEERING_ANGLE},
     v \in {0, 50, 100, -100, 101, -101, MAX_SPEED, -MAX_SPEED}}

PathInputs ==
  {[fn |-> "getPredictivePath", state |-> st, wheelBase |-> DEFAULT_WHEEL_BASE,
    directionSign |-> d, steps |-> n] :
     st \in PathStates, d \in {1, -1}, n \in {0, 1, DEFAULT_STEPS}}

PreviewInputs ==
  {[fn |-> "predictivePath", state |-> st, showPredictivePath |-> b, gear |-> g] :
     st \in PathStates, b \in BOOLEAN, g \in Gears}

\* Vehicles for one tick: heading up the spot towards the top wall, 0.14 px
\* and 0 px short of touching it and well inside the spot; and at the start.
\* Speeds at rest, slow, and at the cap in both directions.
TickStates ==
  {[x |-> 40000, y |-> py, rotation |-> (3 * PI) \div 2, steeringAngle |-> 0,
    speed |-> v] :
     py \in {7000, 7014, 10000},
     v \in {0, 50, -50, 150, MAX_SPEED, -MAX_SPEED}}
  \cup
  {[x |-> INITIAL_CAR_STATE.x, y |-> INITIAL_CAR_STATE.y, rotation |-> 0,
    steeringAngle |-> a, speed |-> v] :
     a \in {0, MAX_STEERING_ANGLE},
     v \in {0, 50, -50, 150, MAX_SPEED, -MAX_SPEED}}

\* Frame deltas in ms for one tick: a 60 Hz frame, the longest frame whose
\* blend factor in gear P is at most 1, a janky frame and a long gap.
TickDeltas == {16, 33, 100, 1300}

TickInputs ==
  {[fn |-> "tick", state |-> st,
    closure |-> Closure("PLAYING", g, gas, brake, 40, 65), dt |-> dt] :
     st \in TickStates, g \in Gears, gas \in BOOLEAN, brake \in BOOLEAN,
     dt \in TickDeltas}

InitFn ==
  /\ AppInit
  /\ fnArgs \in SuccessInputs \cup CollisionInputs \cup PhysicsInputs
                \cup PathInputs \cup PreviewInputs \cup TickInputs
  /\ fnRes = [fn |-> "none"]

CallCheckSuccess ==
  /\ fnArgs.fn = "checkSuccess"
  /\ fnRes.fn = "none"
  /\ fnRes' = [fn |-> "checkSuccess",
               value |-> checkSuccess(fnArgs.state, fnArgs.size, fnArgs.rects[1])]
  /\ UNCHANGED <<appVars, fnArgs>>

CallCheckCollision ==
  /\ fnArgs.fn = "checkCollision"
  /\ fnRes.fn = "none"
  /\ fnRes' = [fn |-> "checkCollision",
               value |-> checkCollision(fnArgs.state, fnArgs.size, fnArgs.rects)]
  /\ UNCHANGED <<appVars, fnArgs>>

CallUpdateCarPhysics ==
  /\ fnArgs.fn = "updateCarPhysics"
  /\ fnRes.fn = "none"
  /\ fnRes' = [fn |-> "updateCarPhysics",
               value |-> updateCarPhysics(fnArgs.state, fnArgs.dt, fnArgs.wheelBase)]
  /\ UNCHANGED <<appVars, fnArgs>>

CallGetPredictivePath ==
  /\ fnArgs.fn = "getPredictivePath"
  /\ fnRes.fn = "none"
  /\ fnRes' = [fn |-> "getPredictivePath",
               value |-> getPredictivePath(fnArgs.state, fnArgs.wheelBase,
                                           fnArgs.directionSign, fnArgs.steps)]
  /\ UNCHANGED <<appVars, fnArgs>>

\* One evaluation of App's useMemo for predictivePath.
CallPredictivePath ==
  /\ fnArgs.fn = "predictivePath"
  /\ fnRes.fn = "none"
  /\ fnRes' = [fn |-> "predictivePath",
               value |-> predictivePath(fnArgs.showPredictivePath, fnArgs.gear,
                                        fnArgs.state)]
  /\ UNCHANGED <<appVars, fnArgs>>

\* The body of animate under gameStatus PLAYING on a drawn ref, closure and
\* frame delta: the blended speed, the integrated state and the branch taken.
CallTick ==
  /\ fnArgs.fn = "tick"
  /\ fnRes.fn = "none"
  /\ LET newSpeed == newSpeedOf(fnArgs.state.speed, fnArgs.closure, fnArgs.dt)
         nextState == nextStateOf(fnArgs.state, fnArgs.closure, fnArgs.dt)
     IN  fnRes' = [fn |-> "tick",
                   value |-> [newSpeed |-> newSpeed, nextState |-> nextState,
                              outcome |-> tickOutcome(nextState, newSpeed,
                                                      fnArgs.closure)]]
  /\ UNCHANGED <<appVars, fnArgs>>

NextFn ==
  \/ CallTick
  \/ CallCheckSuccess
  \/ CallCheckCollision
  \/ CallUpdateCarPhysics
  \/ CallGetPredictivePath
  \/ CallPredictivePath

SpecFn == InitFn /\ [][NextFn]_vars

---------------------------------------------------------------------------
(* Properties of the kernel                                                *)

\* A point within a rectangle, its four edges included.
WithinInclusive(p, rect) ==
  /\ rect.x <= p.x /\ p.x <= rect.x + rect.width
  /\ rect.y <= p.y /\ p.y <= rect.y + rect.height

\* The heading brought into [0, 2*pi) and its distance to 1.5*pi, measured
\* the short way round the circle.
HeadingOffTarget(rotation) ==
  LET d == Abs((rotation % TWO_PI) - (3 * PI) \div 2)
  IN  Min(d, TWO_PI - d)

BothGates(state, size, spot) ==
  /\ \A i \in 1..4 : WithinInclusive(getCarCorners(state, size)[i], spot)
  /\ HeadingOffTarget(state.rotation) < ALIGN_TOLERANCE

\* C6: checkSuccess returns true exactly when all four corners lie within the
\* spot, edges included, and the normalised heading is within 0.2 rad of
\* 1.5*pi the short way round; the speed of the state plays no part.
C6_SuccessIsBothGates ==
  fnRes.fn = "checkSuccess" =>
    /\ fnRes.value = BothGates(fnArgs.state, fnArgs.size, fnArgs.rects[1])
    /\ fnRes.value = checkSuccess([fnArgs.state EXCEPT !.speed = 0], fnArgs.size,
                                  fnArgs.rects[1])

\* A vehicle centred in the spot with heading 0 and at full speed: contained,
\* and judged not parked.
C6_SidewaysInSpot ==
  /\ fnRes.fn = "checkSuccess"
  /\ fnArgs.state.x = 40000 /\ fnArgs.state.y = 10000
  /\ fnArgs.state.rotation = 0
  /\ fnArgs.state.speed = MAX_SPEED
  /\ \A i \in 1..4 : WithinInclusive(getCarCorners(fnArgs.state, fnArgs.size)[i],
                                      fnArgs.rects[1])
  /\ fnRes.value = FALSE

SomeCornerInSomeWall(state, size, walls) ==
  \E i \in 1..4 : \E j \in 1..Len(walls) :
    WithinInclusive(getCarCorners(state, size)[i], walls[j])

\* C7: checkCollision returns true exactly when at least one of the four
\* corners lies within at least one obstacle, edges included; a vehicle lying
\* over an obstacle of its own or of a larger extent collides.
C7_CollisionIsCornerInWall ==
  fnRes.fn = "checkCollision" =>
    /\ fnRes.value = SomeCornerInSomeWall(fnArgs.state, fnArgs.size, fnArgs.rects)
    /\ ( /\ fnArgs.state.x = 40000 /\ fnArgs.state.y = 30000
         /\ fnArgs.state.rotation = 0
         /\ fnArgs.rects \in {<<EqualObstacle>>, <<LargerObstacle>>}
         => fnRes.value )

\* The blind spot: an obstacle covers the centre of the vehicle, no corner of
\* the vehicle lies within an obstacle, and the vehicle is judged clear.
C7_ObstacleThroughBody ==
  /\ fnRes.fn = "checkCollision"
  /\ \E j \in 1..Len(fnArgs.rects) : WithinInclusive(fnArgs.state, fnArgs.rects[j])
  /\ fnRes.value = FALSE

\* C8: on a state with |speed| < 0.01, updateCarPhysics returns its input,
\* whatever dt, wheelBase and steeringAngle are.
C8_RestIsFixed ==
  (fnRes.fn = "updateCarPhysics" /\ Abs(fnArgs.state.speed) < 10) =>
    fnRes.value = fnArgs.state

\* A state creeping at 0.009 with the wheel at full lock, over a long frame.
C8_CreepingAtFullLock ==
  /\ fnRes.fn = "updateCarPhysics"
  /\ fnArgs.state.speed = 9
  /\ fnArgs.state.steeringAngle = MAX_STEERING_ANGLE
  /\ fnArgs.dt = 1300
  /\ fnRes.value = fnArgs.state

---------------------------------------------------------------------------
(* Properties of the session                                               *)

\* C4: in every reachable state the steering angle of the vehicle state (the
\* state variable, the ref and the rendered value) is within
\* MAX_STEERING_ANGLE in magnitude.
C4_SteeringWithinLock ==
  /\ Abs(carState.steeringAngle) <= MAX_STEERING_ANGLE
  /\ Abs(carStateRef.steeringAngle) <= MAX_STEERING_ANGLE
  /\ Abs(view.carState.steeringAngle) <= MAX_STEERING_ANGLE

\* A pointer move has just asked for more than the visual range: the wheel
\* was at +540 degrees when the listener was registered, the pointer was
\* grabbed at -170 degrees and has turned on to 0, and the angle is at the
\* lock (three events: the quick-set, the grab and the move).
C4_DraggedPastLock ==
  /\ lastOp = "HandleMove"
  /\ events = 3
  /\ lsn.visual = MAX_VISUAL_DEG
  /\ startAngleRef = 0
  /\ carStateRef.steeringAngle = MAX_STEERING_ANGLE
  /\ carState.steeringAngle = MAX_STEERING_ANGLE

\* C1: the outcome changes only from PLAYING, to CRASHED or PARKED; a
\* terminal outcome changes only in handleReset.
C1_OutcomeOnlyLeavesPlaying ==
  [][gameStatus' # gameStatus =>
       \/ lastOp' = "HandleReset"
       \/ gameStatus = "PLAYING" /\ gameStatus' \in {"CRASHED", "PARKED"}]_vars

\* C2: while the outcome is CRASHED or PARKED, no animation-frame callback
\* commits a vehicle state (neither carState nor carStateRef changes).
C2_NoCommitAfterOutcome ==
  [][(gameStatus # "PLAYING" /\ lastOp' = "Animate" /\ ticks' # ticks) =>
       carState' = carState /\ carStateRef' = carStateRef]_vars

\* C3: in every state that follows handleReset, up to the next handler or
\* callback, the vehicle state, the ref and the rendered state are
\* INITIAL_CAR_STATE, the outcome is PLAYING in the state, in the render and
\* in the closure of the scheduled callback, that closure holds the reset
\* gear and pedals, and no effect of the commit is left to run.
C3_ResetIsAtomic ==
  lastOp = "HandleReset" =>
    /\ carState = INITIAL_CAR_STATE
    /\ carStateRef = INITIAL_CAR_STATE
    /\ view = [carState |-> INITIAL_CAR_STATE, gameStatus |-> "PLAYING"]
    /\ gameStatus = "PLAYING"
    /\ cb.gameStatus = "PLAYING"
    /\ cb.gear = "P" /\ ~cb.isGasPressed /\ ~cb.isBrakePressed
    /\ gear = "P" /\ ~isGasPressed /\ ~isBrakePressed
    /\ pe = NoEffects

\* A reset after a crash whose advice request is still in flight.
C3_ResetAfterCrash ==
  /\ lastOp = "HandleReset"
  /\ \E i \in 1..Len(requests) :
       requests[i].status = "CRASHED" /\ requests[i].state # INITIAL_CAR_STATE

\* The judgement of the callback on the state it has just committed.
JudgedParked ==
  checkSuccess(carStateRef, currentCarSize(cb.carWidth),
               getEnvironment(cb.spotWidth).parkingSpot)
JudgedCollided ==
  checkCollision(carStateRef, currentCarSize(cb.carWidth),
                 getEnvironment(cb.spotWidth).walls)

FailureOutcomes == {"clientThrows", "promptThrows", "remoteThrows"}

C10_AdviceNeverRejects ==
  /\ [](/\ rejected = 0
        /\ \A i \in 1..Len(requests) : \A o \in AdviceOutcomes :
             LET result == getDrivingAdvice(requests[i], o)
             IN  /\ result.settled = "fulfilled"
                 /\ o \in FailureOutcomes => result.value = FALLBACK
                 /\ o = "emptyText" => result.value = PLACEHOLDER)
  /\ [][(lastOp' = "AdviceSettle" /\ requests' # requests) =>
          /\ UNCHANGED <<carState, carStateRef, gameStatus, view, cb, requestRef,
                         lastTimeSet, gear, isGasPressed, isBrakePressed>>
          /\ aiAdvice' \in {FALLBACK, PLACEHOLDER}
                \cup {[kind |-> "advice", req |-> requests[i].id] :
                        i \in 1..Len(requests)}
          /\ isLoadingAi' = FALSE]_vars

\* The advice call has failed and the fallback is what is shown.
C10_FallbackShown ==
  /\ lastOp = "AdviceSettle"
  /\ aiAdvice = FALLBACK
  /\ ~isLoadingAi
  /\ rejected = 0


---------------------------------------------------------------------------
(* Properties of the preview path                                          *)

\* C11: the path App draws has exactly 30 points when the gear is D or R and
\* the display is on, whatever the vehicle state, and none when the gear is
\* P or N or the display is off; getPredictivePath called with steps
\* returns exactly steps points.
C11_PathLength ==
  /\ fnRes.fn = "predictivePath" =>
       Len(fnRes.value) =
         IF fnArgs.showPredictivePath /\ fnArgs.gear \in {"D", "R"}
         THEN DEFAULT_STEPS ELSE 0
  /\ fnRes.fn = "getPredictivePath" => Len(fnRes.value) = fnArgs.steps

\* A full preview of a vehicle at rest at full lock, gear R.
C11_FullPathAtRest ==
  /\ fnRes.fn = "predictivePath"
  /\ fnArgs.showPredictivePath
  /\ fnArgs.gear = "R"
  /\ fnArgs.state.speed = 0
  /\ fnArgs.state.steeringAngle = MAX_STEERING_ANGLE
  /\ Len(fnRes.value) = DEFAULT_STEPS

---------------------------------------------------------------------------
(* Properties of the session: the state, the ref and the effects           *)

\* A step of the frame callback, of a steering handler, of the effects.
IsTickStep == ticks' = ticks + 1
IsSteeringStep == events' = events + 1 /\ lastOp' \in {"SetTurns", "HandleMove"}
IsEffectStep == ticks' = ticks /\ events' = events /\ carStateRef' # carStateRef

\* C12: no update to the vehicle state is lost: a tick that integrates does
\* so with the steering angle of the last state given to setCarState, a
\* steering change keeps the position, heading and speed of that state, and
\* when the ref-sync effect changes the ref, the ref becomes that state.
C12_NoLostUpdate ==
  [][/\ (IsTickStep /\ lastTimeSet /\ cb.gameStatus = "PLAYING")
          => carState'.steeringAngle = carState.steeringAngle
     /\ IsSteeringStep
          => /\ carState'.x = carState.x
             /\ carState'.y = carState.y
             /\ carState'.rotation = carState.rotation
             /\ carState'.speed = carState.speed
     /\ IsEffectStep => carStateRef' = carState']_vars

\* C13: the vehicle shape and the world rectangles are fixed during a session:
\* no step changes currentCarSize, walls or parkingSpot, whatever the outcome.
C13_WorldFixedInSession ==
  [][/\ currentCarSize(carWidth') = currentCarSize(carWidth)
     /\ getEnvironment(spotWidth').walls = getEnvironment(spotWidth).walls
     /\ getEnvironment(spotWidth').parkingSpot = getEnvironment(spotWidth).parkingSpot]_vars

\* C14: the heading sent with every advice request is a whole number of
\* degrees from 0 to 359, whatever heading the vehicle has accumulated.
C14_HeadingSentInRange ==
  \A i \in 1..Len(requests) : angleDeg(requests[i].state) \in 0..359

\* C15: a steering change keeps x, y, heading and speed of the last state
\* given to setCarState and changes only steeringAngle; a tick keeps
\* steeringAngle; a steering change issued while the outcome is CRASHED or
\* PARKED changes neither the state nor the ref.
C15_SteeringAndTickFrames ==
  [][/\ IsSteeringStep
          => carState' = [carState EXCEPT !.steeringAngle = carState'.steeringAngle]
     /\ IsTickStep => carState'.steeringAngle = carState.steeringAngle
     /\ (IsSteeringStep /\ gameStatus \in {"CRASHED", "PARKED"})
          => UNCHANGED <<carState, carStateRef>>]_vars

---------------------------------------------------------------------------
(* Properties of the steering wheel                                        *)

\* C16: every drag input delivered while the outcome is PLAYING is applied to
\* the visual rotation the previous input produced: the steering angle after
\* a move is clamp(visual + delta) / 540 * maxAngle, where visual is the
\* rotation of the steering angle the previous input left, also when the
\* component has not rendered since that input.
C16_DragInputsAccumulate ==
  [][(lastOp' = "HandleMove" /\ events' = events + 1 /\ gameStatus = "PLAYING")
       => carState'.steeringAngle =
            handleMoveAngle(currentVisualRotation(carState.steeringAngle,
                                                  MAX_STEERING_ANGLE),
                            moveDelta(startAngleRef', startAngleRef),
                            MAX_STEERING_ANGLE)]_vars

---------------------------------------------------------------------------
(* Properties of the integrator                                            *)

\* The distance of one step in 1/100 px, and its heading change.
StepDist(speed, dt) == RDiv(speed * dt * 3, 1000)
StepTurn(speed, dt, steeringAngle, wheelBase) ==
  RDiv(RDiv(StepDist(speed, dt) * Tan(steeringAngle), 1000) * 1375, 100 * wheelBase)

\* C17: at |speed| >= 0.01 updateCarPhysics turns first and then translates
\* along the new heading: newRotation = rotation + dist / wheelBase * tan(steer),
\* newX = x + dist * cos(newRotation), newY = y + dist * sin(newRotation) with
\* dist = speed * dt * 30; speed and steeringAngle come back unchanged; with
\* steeringAngle 0 the heading is unchanged and the displacement lies along it.
C17_TurnThenTranslate ==
  (fnRes.fn = "updateCarPhysics" /\ Abs(fnArgs.state.speed) >= 10) =>
    LET st == fnArgs.state
        dist == StepDist(st.speed, fnArgs.dt)
        newRotation == st.rotation
                         + StepTurn(st.speed, fnArgs.dt, st.steeringAngle, fnArgs.wheelBase)
    IN  /\ fnRes.value.rotation = newRotation
        /\ fnRes.value.x = st.x + RDiv(dist * Cos(newRotation), 1000)
        /\ fnRes.value.y = st.y + RDiv(dist * Sin(newRotation), 1000)
        /\ fnRes.value.speed = st.speed
        /\ fnRes.value.steeringAngle = st.steeringAngle
        /\ st.steeringAngle = 0 =>
             /\ fnRes.value.rotation = st.rotation
             /\ fnRes.value.x - st.x = RDiv(dist * Cos(st.rotation), 1000)
             /\ fnRes.value.y - st.y = RDiv(dist * Sin(st.rotation), 1000)

\* A step at full lock whose new heading differs from the old one, and whose
\* displacement is the one along the new heading and not along the old.
C17_TurnedBeforeMoving ==
  /\ fnRes.fn = "updateCarPhysics"
  /\ fnArgs.state.speed = MAX_SPEED
  /\ fnArgs.state.steeringAngle = MAX_STEERING_ANGLE
  /\ fnArgs.dt = 500
  /\ fnRes.value.rotation # fnArgs.state.rotation
  /\ fnRes.value.x = fnArgs.state.x
       + RDiv(StepDist(MAX_SPEED, 500) * Cos(fnRes.value.rotation), 1000)
  /\ fnRes.value.x # fnArgs.state.x
       + RDiv(StepDist(MAX_SPEED, 500) * Cos(fnArgs.state.rotation), 1000)

Sign(n) == IF n > 0 THEN 1 ELSE IF n < 0 THEN -1 ELSE 0

\* A frame callback that integrates, and the heading change it makes to the
\* state it reads from the ref.
IsIntegratingTick == IsTickStep /\ lastTimeSet /\ cb.gameStatus = "PLAYING"
TickTurn == carStateRef'.rotation - carStateRef.rotation

\* C18: in every tick that integrates a speed <= -0.01 with the steering at
\* the right lock the heading strictly decreases; in every tick that
\* integrates |speed| >= 0.01 the sign of the heading change is
\* sign(speed) * sign(steeringAngle); a tick with |speed| < 0.01 leaves the
\* heading as it is.
C18_TurnSignAboveRest ==
  [][IsIntegratingTick =>
       /\ (carStateRef'.speed <= -10 /\ carStateRef.steeringAngle = MAX_STEERING_ANGLE)
            => TickTurn < 0
       /\ Abs(carStateRef'.speed) >= 10
            => Sign(TickTurn) = Sign(carStateRef'.speed) * Sign(carStateRef.steeringAngle)
       /\ Abs(carStateRef'.speed) < 10 => TickTurn = 0]_vars

\* C18 as stated: the sign rule for every tick that integrates, whatever its
\* speed.
C18_TurnSignEveryTick ==
  [][IsIntegratingTick =>
       /\ (carStateRef'.speed <= -10 /\ carStateRef.steeringAngle = MAX_STEERING_ANGLE)
            => TickTurn < 0
       /\ Sign(TickTurn) = Sign(carStateRef'.speed) * Sign(carStateRef.steeringAngle)]_vars

\* Right lock, gear R, gas, and a tick in reverse: the heading, 0 at the
\* start, is below 0.
C18_ReversedAtRightLock ==
  /\ lastOp = "Animate"
  /\ events = 3
  /\ gear = "R"
  /\ carStateRef.steeringAngle = MAX_STEERING_ANGLE
  /\ carStateRef.speed <= -10
  /\ carStateRef.rotation < 0

\* The states reached by applying updateCarPhysics 1, 2, ..., n times with
\* dt = 0.5 s, starting from state.
RECURSIVE Trajectory(_, _, _)
Trajectory(state, wheelBase, n) ==
  IF n = 0 THEN <<>>
  ELSE LET reached == updateCarPhysics(state, 500, wheelBase)
       IN  <<reached>> \o Trajectory(reached, wheelBase, n - 1)

\* The copy of the argument of the call that carries the simulated speed.
SimulatedStart ==
  [fnArgs.state EXCEPT !.speed = IF Abs(fnArgs.state.speed) > 100
                                 THEN fnArgs.state.speed
                                 ELSE fnArgs.directionSign * 1500]

\* C19: getPredictivePath leaves the state it is given, carState and
\* carStateRef as they are; its i-th point, for every i up to steps, is the
\* position after i applications of updateCarPhysics with dt = 0.5 to a copy
\* of the state that carries the simulated speed, also when earlier predicted
\* positions collide with an obstacle.
C19_PathIsIteratedPhysics ==
  /\ [](fnRes.fn = "getPredictivePath" =>
         /\ Len(fnRes.value) = fnArgs.steps
         /\ LET reached == Trajectory(SimulatedStart, fnArgs.wheelBase, fnArgs.steps)
            IN  \A i \in 1..fnArgs.steps :
                  fnRes.value[i] = [x |-> reached[i].x, y |-> reached[i].y])
  /\ [][fnRes'.fn = "getPredictivePath" =>
          /\ fnArgs' = fnArgs
          /\ carState' = carState
          /\ carStateRef' = carStateRef]_vars

\* A preview that runs on after a predicted vehicle touched a wall.
C19_PathThroughWall ==
  /\ fnRes.fn = "getPredictivePath"
  /\ fnArgs.steps = DEFAULT_STEPS
  /\ Len(fnRes.value) = DEFAULT_STEPS
  /\ \E i \in 1..(DEFAULT_STEPS - 1) :
       /\ checkCollision(Trajectory(SimulatedStart, fnArgs.wheelBase, i)[i], FnSize,
                         getEnvironment(65).walls)
       /\ fnRes.value[i + 1] # fnRes.value[i]

\* C20: the preview is computed at the vehicle's own signed speed when
\* |speed| > 0.1 and otherwise at directionSign * 1.5, with directionSign +1
\* for gear D and -1 for gear R: every point of the path App draws is the one
\* reached at that speed, so a vehicle rolling forward faster than 0.1 with
\* gear R gets the forward preview and a vehicle at rest the preview in the
\* direction of the gear.
C20_PreviewSpeed ==
  /\ fnRes.fn = "getPredictivePath" =>
       LET v == fnArgs.state.speed
           used == IF v > 100 \/ v < -100 THEN v ELSE fnArgs.directionSign * 1500
           reached == Trajectory([fnArgs.state EXCEPT !.speed = used],
                                 fnArgs.wheelBase, fnArgs.steps)
       IN  \A i \in 1..fnArgs.steps :
             fnRes.value[i] = [x |-> reached[i].x, y |-> reached[i].y]
  /\ (fnRes.fn = "predictivePath" /\ fnRes.value # <<>>) =>
       LET v == fnArgs.state.speed
           nominal == IF fnArgs.gear = "D" THEN 1500 ELSE -1500
           used == IF v > 100 \/ v < -100 THEN v ELSE nominal
           reached == Trajectory([fnArgs.state EXCEPT !.speed = used],
                                 DEFAULT_WHEEL_BASE, DEFAULT_STEPS)
       IN  \A i \in 1..DEFAULT_STEPS :
             fnRes.value[i] = [x |-> reached[i].x, y |-> reached[i].y]

\* Gear R, heading 0, wheels straight, rolling forward at 0.101: the preview
\* runs forward (x grows).
C20_ForwardPreviewInReverseGear ==
  /\ fnRes.fn = "predictivePath"
  /\ fnArgs.showPredictivePath
  /\ fnArgs.gear = "R"
  /\ fnArgs.state.speed = 101
  /\ fnArgs.state.rotation = 0
  /\ fnArgs.state.steeringAngle = 0
  /\ Len(fnRes.value) = DEFAULT_STEPS
  /\ fnRes.value[1].x > fnArgs.state.x
  /\ fnRes.value[DEFAULT_STEPS].x > fnRes.value[1].x

---------------------------------------------------------------------------
(* Properties of one tick                                                  *)

\* The vehicle the tick was called on, and the one it integrated, against
\* the default vehicle size and environment.
TickCollides(state) == checkCollision(state, FnSize, getEnvironment(65).walls)
TickInSpot(state) == checkSuccess(state, FnSize, FnSpot)

\* C21: a tick tests the state it has just integrated, the collision test
\* first: the branch is CRASHED when the new state collides, also when that
\* state satisfies checkSuccess with |newSpeed| < 0.1; it is PARKED only when
\* the new state is collision-free, satisfies checkSuccess and
\* |newSpeed| < 0.1; the state the tick started from does not matter.
C21_CollisionFirstOnNewState ==
  fnRes.fn = "tick" =>
    LET new == fnRes.value.nextState
    IN  /\ new = updateCarPhysics([fnArgs.state EXCEPT !.speed = fnRes.value.newSpeed],
                                  fnArgs.dt, DEFAULT_WHEEL_BASE)
        /\ fnRes.value.outcome = "CRASHED" <=> TickCollides(new)
        /\ fnRes.value.outcome = "PARKED" <=>
             /\ ~TickCollides(new)
             /\ TickInSpot(new)
             /\ Abs(fnRes.value.newSpeed) < 100

\* A tick that creeps up the spot from a collision-free parked position onto
\* the boundary y = 50 shared with the top wall: the new state collides and
\* satisfies checkSuccess at |newSpeed| < 0.1, and the branch is CRASHED.
C21_CrashedOnSharedBoundary ==
  /\ fnRes.fn = "tick"
  /\ ~TickCollides(fnArgs.state)
  /\ TickInSpot(fnArgs.state)
  /\ fnRes.value.nextState # fnArgs.state
  /\ TickCollides(fnRes.value.nextState)
  /\ TickInSpot(fnRes.value.nextState)
  /\ Abs(fnRes.value.newSpeed) < 100
  /\ \E i \in 1..4 : getCarCorners(fnRes.value.nextState, FnSize)[i].y = 5000
  /\ fnRes.value.outcome = "CRASHED"

---------------------------------------------------------------------------
(* Properties of the session: outcome, speed and advice                    *)

\* C22: with vehicle size and environment fixed, the outcome agrees with the
\* geometry of the last state given to setCarState: that state collides with
\* an obstacle exactly when the outcome is CRASHED.
C22_OutcomeAgreesWithGeometry ==
  checkCollision(carState, currentCarSize(carWidth), getEnvironment(spotWidth).walls)
    <=> gameStatus = "CRASHED"

\* C23: after any ticks, with any gear, pedals and frame deltas, the speed of
\* the vehicle stays within the cap: |speed| <= MAX_SPEED.
C23_SpeedWithinCap ==
  /\ Abs(carState.speed) <= MAX_SPEED
  /\ Abs(carStateRef.speed) <= MAX_SPEED

\* The blend factor physicsResponse * deltaTime * 60 of the tick, in 1/1000.
TickBlendFactor == RDiv(physicsResponse(fnArgs.closure) * fnArgs.dt * 60, 100)

\* C24: in a tick whose blend factor is at most 1, |speed| grows only if the
\* gear is D or R, the accelerator is pressed and the brake is not; in gear
\* P, in gear N or with the brake pressed, whatever the accelerator, |speed|
\* does not grow and the sign of the speed does not flip.
C24_SpeedGrowsOnlyUnderGas ==
  (fnRes.fn = "tick" /\ TickBlendFactor <= 1000) =>
    LET old == fnArgs.state.speed
        new == fnRes.value.newSpeed
        c == fnArgs.closure
    IN  /\ Abs(new) > Abs(old)
             => c.gear \in {"D", "R"} /\ c.isGasPressed /\ ~c.isBrakePressed
        /\ (c.gear \in {"D", "R"} /\ c.isGasPressed /\ ~c.isBrakePressed)
             => \/ new = old
                \/ Sign(new - old) = (IF c.gear = "D" THEN 1 ELSE -1)
        /\ (c.gear \in {"P", "N"} \/ c.isBrakePressed)
             => /\ Abs(new) <= Abs(old)
                /\ Sign(new) * Sign(old) >= 0

\* Gear P with the accelerator held at speed 2 and a 33 ms frame (factor
\* 0.99): the speed falls towards 0 and stays positive.
C24_GasHeldInPark ==
  /\ fnRes.fn = "tick"
  /\ fnArgs.closure.gear = "P"
  /\ fnArgs.closure.isGasPressed
  /\ fnArgs.state.speed = MAX_SPEED
  /\ fnArgs.dt = 33
  /\ TickBlendFactor <= 1000
  /\ fnRes.value.newSpeed > 0
  /\ fnRes.value.newSpeed < MAX_SPEED

\* A step in which the promise of an advice request settles.
IsSettleStep == lastOp' = "AdviceSettle" /\ Len(requests') = Len(requests) - 1

\* The request whose promise settles in the step: the one no longer in flight.
SettledId ==
  CHOOSE k \in {requests[i].id : i \in 1..Len(requests)} :
    \A j \in 1..Len(requests') : requests'[j].id # k

=============================================================================
